---- MODULE Spec2Model ----
(***************************************************************************)
(* docker-ci-deploy (docker_ci_deploy/__main__.py): the reference parser,  *)
(* the registry and version taggers, the tag pipeline and main()'s         *)
(* sequence of `docker tag` / `docker push` invocations.                   *)
(*                                                                         *)
(* A Python str is a sequence of one-character strings, so that prefixes,  *)
(* joins and regular expressions are computed and not assumed.  Python's   *)
(* None is the value None below, which is no str.                          *)
(***************************************************************************)
EXTENDS Integers, Sequences, FiniteSets, TLC

VARIABLES
    args,             \* main: the argparse namespace (set once by parse_args)
    pc,               \* main: where the invocation stands
    tags,             \* main: the chain iterator over --tag (what it has left)
    version_tagger,   \* main: VersionTagger for --version, or None
    git_tagger,       \* main: VersionTagger for --git-branch/--git-hash, or None
    registry_tagger,  \* main: RegistryTagger for --registry, or None
    tag_map,          \* main: [(image, push_tags)], built image by image
    i,                \* main: how far the running loop is
    calls,            \* DockerRunner._docker_cmd: every command it was given
    log,              \* DockerRunner.logger: every line it was given
    tagger,           \* a VersionTagger under test (TaggerSpec), or None
    tagger_tag,       \* the tag of its last generate_tags call
    tagger_ret,       \* what that call returned
    fn,               \* a function called on its own (FuncSpec), or "none"
    fn_args,          \* the arguments of the last such call
    fn_ret,           \* what that call returned, or the exception it raised
    locals            \* the local variables of a call that is running

vars == <<args, pc, tags, version_tagger, git_tagger, registry_tagger,
          tag_map, i, calls, log, tagger, tagger_tag, tagger_ret,
          fn, fn_args, fn_ret, locals>>

mainVars == <<args, pc, tags, version_tagger, git_tagger, registry_tagger,
              tag_map, i, calls, log>>

taggerVars == <<tagger, tagger_tag, tagger_ret>>

funcVars == <<fn, fn_args, fn_ret, locals>>

(***************************************************************************)
(* Strings                                                                 *)
(***************************************************************************)

\* None where a str is expected
None == <<"None">>

\* None where a list is expected
NoneList == <<<<"None", "list">>>>

\* None where an object is expected
NoneObject == [none |-> TRUE]

\* A ValueError raised where a str was to be returned, and where a list was
ValueError == <<"ValueError">>

ValueErrorList == <<ValueError>>

Digit == {"0", "1", "2", "3", "4", "5", "6", "7", "8", "9"}

Lower == {"a", "b", "c", "d", "e", "f", "g", "h", "i", "j", "k", "l", "m",
          "n", "o", "p", "q", "r", "s", "t", "u", "v", "w", "x", "y", "z"}

Upper == {"A", "B", "C", "D", "E", "F", "G", "H", "I", "J", "K", "L", "M",
          "N", "O", "P", "Q", "R", "S", "T", "U", "V", "W", "X", "Y", "Z"}

Alpha == Lower \cup Upper

Alnum == Alpha \cup Digit

LowerNum == Lower \cup Digit

\* \w
WordChar == Alnum \cup {"_"}

Chars(s) == {s[k] : k \in 1..Len(s)}

\* str.startswith
StartsWith(s, p) == Len(p) <= Len(s) /\ SubSeq(s, 1, Len(p)) = p

\* s[n:]
Drop(s, n) == SubSeq(s, n + 1, Len(s))

\* s[:n]
Take(s, n) == SubSeq(s, 1, IF n < Len(s) THEN n ELSE Len(s))

\* sep.join(parts)
RECURSIVE Join(_, _)
Join(parts, sep) ==
    IF Len(parts) = 0 THEN <<>>
    ELSE IF Len(parts) = 1 THEN parts[1]
    ELSE parts[1] \o sep \o Join(Tail(parts), sep)

\* The index of the first c in s, 0 when there is none.
Index(s, c) ==
    LET at == {k \in 1..Len(s) : s[k] = c}
    IN  IF at = {} THEN 0 ELSE CHOOSE k \in at : \A m \in at : k <= m

\* The index of the last c in s, 0 when there is none.
LastIndex(s, c) ==
    LET at == {k \in 1..Len(s) : s[k] = c}
    IN  IF at = {} THEN 0 ELSE CHOOSE k \in at : \A m \in at : k >= m

\* s.split(c)
RECURSIVE Split(_, _)
Split(s, c) ==
    LET k == Index(s, c)
    IN  IF k = 0 THEN <<s>>
        ELSE <<SubSeq(s, 1, k - 1)>> \o Split(Drop(s, k), c)

\* The concatenation of a sequence of sequences.
RECURSIVE Flatten(_)
Flatten(ss) == IF Len(ss) = 0 THEN <<>> ELSE ss[1] \o Flatten(Tail(ss))

(***************************************************************************)
(* The reference grammar (the regular expressions, as Python's re reads    *)
(* them)                                                                   *)
(***************************************************************************)

\* HOSTNAME_COMPONENT_PATTERN
HostnameComponent(s) ==
    /\ Len(s) > 0
    /\ s[1] \in Alnum
    /\ s[Len(s)] \in Alnum
    /\ Chars(s) \subseteq Alnum \cup {"-"}

\* HOSTNAME_PATTERN: hostcomponent ['.' hostcomponent]* [':' port-number]
Hostname(s) ==
    LET c     == Index(s, ":")
        host  == IF c = 0 THEN s ELSE SubSeq(s, 1, c - 1)
        port  == IF c = 0 THEN <<>> ELSE Drop(s, c)
        comps == Split(host, ".")
    IN  /\ c # 0 => (Len(port) > 0 /\ Chars(port) \subseteq Digit)
        /\ \A k \in 1..Len(comps) : HostnameComponent(comps[k])

\* One separator of NAME_COMPONENT_PATTERN: [._], __ or [-]* (taken between
\* two runs of [a-z0-9]+, so the empty separator joins two runs into one).
Separator(s) ==
    \/ s = <<".">>
    \/ s = <<"_">>
    \/ s = <<"_", "_">>
    \/ Chars(s) \subseteq {"-"}

\* NAME_COMPONENT_PATTERN
NameComponent(s) ==
    /\ Len(s) > 0
    /\ s[1] \in LowerNum
    /\ s[Len(s)] \in LowerNum
    /\ Chars(s) \subseteq LowerNum \cup {".", "_", "-"}
    /\ \A a \in 2..(Len(s) - 1) : \A b \in a..(Len(s) - 1) :
          ( /\ s[a - 1] \in LowerNum
            /\ s[b + 1] \in LowerNum
            /\ Chars(SubSeq(s, a, b)) \cap LowerNum = {} )
          => Separator(SubSeq(s, a, b))

\* component ['/' component]*
NameComponents(s) ==
    LET comps == Split(s, "/")
    IN  \A k \in 1..Len(comps) : NameComponent(comps[k])

\* '$' matches at the end of the string and before a newline that ends it.
BeforeDollar(s) ==
    IF Len(s) > 0 /\ s[Len(s)] = "\n" THEN SubSeq(s, 1, Len(s) - 1) ELSE s

\* ANCHORED_NAME_REGEX without the optional hostname group
ANCHORED_NAME_REGEX_without_hostname(s0) ==
    LET s == BeforeDollar(s0)
    IN  IF NameComponents(s)
        THEN [matched |-> TRUE, hostname |-> None, remainder |-> s]
        ELSE [matched |-> FALSE, hostname |-> None, remainder |-> None]

\* ANCHORED_NAME_REGEX.match(s): [matched, hostname (group 1), remainder
\* (group 2)].  The optional hostname group is tried first.
ANCHORED_NAME_REGEX(s0) ==
    LET s    == BeforeDollar(s0)
        k    == Index(s, "/")
        host == SubSeq(s, 1, k - 1)
        rest == Drop(s, k)
    IN  IF k # 0 /\ Hostname(host) /\ NameComponents(rest)
        THEN [matched |-> TRUE, hostname |-> host, remainder |-> rest]
        ELSE IF NameComponents(s)
        THEN [matched |-> TRUE, hostname |-> None, remainder |-> s]
        ELSE [matched |-> FALSE, hostname |-> None, remainder |-> None]

\* NAME_PATTERN matching all of s
NamePattern(s) ==
    LET k == Index(s, "/")
    IN  \/ k # 0 /\ Hostname(SubSeq(s, 1, k - 1)) /\ NameComponents(Drop(s, k))
        \/ NameComponents(s)

TagMaxRest == 127

\* TAG_PATTERN matching all of s
TagPattern(s) ==
    /\ Len(s) > 0
    /\ Len(s) <= 1 + TagMaxRest
    /\ s[1] \in WordChar
    /\ Chars(s) \subseteq WordChar \cup {".", "-"}

\* [A-Za-z][A-Za-z0-9]*
DigestAlgorithmComponent(s) ==
    Len(s) > 0 /\ s[1] \in Alpha /\ Chars(s) \subseteq Alnum

\* [A-Za-z][A-Za-z0-9]*(?:[-_+.][A-Za-z][A-Za-z0-9]*)*
RECURSIVE DigestAlgorithm(_)
DigestAlgorithm(s) ==
    \/ DigestAlgorithmComponent(s)
    \/ \E k \in 2..Len(s) :
          /\ s[k] \in {"-", "_", "+", "."}
          /\ DigestAlgorithmComponent(SubSeq(s, 1, k - 1))
          /\ DigestAlgorithm(Drop(s, k))

DigestMinRepeat == 32

\* DIGEST_PATTERN matching all of s.  Python's re has no POSIX classes:
\* '[[:xdigit:]' is the set of the characters '[', ':', 'x', 'd', 'i', 'g'
\* and 't', and ']{32,}' asks for 32 or more ']' after one of them.
DigestPattern(s) ==
    LET c == Index(s, ":")
        h == Drop(s, c)
    IN  /\ c # 0
        /\ DigestAlgorithm(SubSeq(s, 1, c - 1))
        /\ Len(h) >= 1 + DigestMinRepeat
        /\ h[1] \in {"[", ":", "x", "d", "i", "g", "t"}
        /\ Chars(Tail(h)) = {"]"}

\* REFERENCE_REGEX.match(s): [matched, name (group 1), tag (group 2)].
\* A name holds a ':' only in its hostname's port, which a '/' follows, and
\* a tag holds neither ':' nor '/': the split is the only one there is.
REFERENCE_REGEX(s0) ==
    LET s     == BeforeDollar(s0)
        at    == Index(s, "@")
        body  == IF at = 0 THEN s ELSE SubSeq(s, 1, at - 1)
        c     == LastIndex(body, ":")
        left  == SubSeq(body, 1, c - 1)
        right == Drop(body, c)
        nomatch == [matched |-> FALSE, name |-> None, tag |-> None]
    IN  IF at # 0 /\ ~DigestPattern(Drop(s, at)) THEN nomatch
        ELSE IF NamePattern(body)
        THEN [matched |-> TRUE, name |-> body, tag |-> None]
        ELSE IF c # 0 /\ NamePattern(left) /\ TagPattern(right)
        THEN [matched |-> TRUE, name |-> left, tag |-> right]
        ELSE nomatch

\* split_image_tag, line 56: the message of the ValueError
split_error_message(image_tag) ==
    << "U", "n", "a", "b", "l", "e", " ", "t", "o", " ", "p", "a", "r", "s",
       "e", " ", "i", "m", "a", "g", "e", " ", "t", "a", "g", " ", "'" >>
    \o image_tag \o <<"'">>

\* split_image_tag that returns '' for a reference without a tag
split_image_tag_empty_tag(image_tag) ==
    LET match == REFERENCE_REGEX(image_tag)
    IN  IF ~match.matched THEN ValueErrorList
        ELSE <<match.name, IF match.tag = None THEN <<>> ELSE match.tag>>

\* split_image_tag(image_tag): <<name, tag>>, or ValueError
split_image_tag(image_tag) ==
    LET match == REFERENCE_REGEX(image_tag)
    IN  IF ~match.matched THEN ValueErrorList ELSE <<match.name, match.tag>>

\* join_image_tag(image, tag): `not tag` is true of None and of ''
join_image_tag(image, tag) ==
    IF tag = None \/ tag = <<>> THEN image ELSE Join(<<image, tag>>, <<":">>)

(***************************************************************************)
(* RegistryTagger                                                          *)
(***************************************************************************)

\* _join_image_registry(image, registry)
_join_image_registry(image, registry) == Join(<<registry, image>>, <<"/">>)

\* _strip_image_registry, line 88: the message of the ValueError
strip_error_message(image) ==
    << "U", "n", "a", "b", "l", "e", " ", "t", "o", " ", "p", "a", "r", "s",
       "e", " ", "i", "m", "a", "g", "e", " ", "n", "a", "m", "e", " ", "'" >>
    \o image \o <<"'">>

\* _strip_image_registry that returns the name with its hostname
_strip_image_registry_keeps(image) ==
    LET match == ANCHORED_NAME_REGEX(image)
    IN  IF ~match.matched THEN ValueError ELSE image

\* _strip_image_registry(image): the name without its hostname, or ValueError
_strip_image_registry(image) ==
    LET match == ANCHORED_NAME_REGEX(image)
    IN  IF ~match.matched THEN ValueError ELSE match.remainder

\* generate_tag that strips the hostname before it tries the plain join
RegistryTagger_generate_tag_strip_first(registry, image) ==
    LET stripped == _strip_image_registry(image)
    IN  IF stripped = ValueError THEN ValueError
        ELSE _join_image_registry(stripped, registry)

\* RegistryTagger(registry).generate_tag(image)
RegistryTagger_generate_tag(registry, image) ==
    LET joined_image == _join_image_registry(image, registry)
        stripped     == _strip_image_registry(image)
    IN  IF ANCHORED_NAME_REGEX(joined_image).matched THEN joined_image
        ELSE IF stripped = ValueError THEN ValueError
        ELSE _join_image_registry(stripped, registry)

(***************************************************************************)
(* VersionTagger                                                           *)
(***************************************************************************)

latest == <<"l", "a", "t", "e", "s", "t">>

\* _join_tag_parts(*parts)
_join_tag_parts(parts) == Join(parts, <<"-">>)

\* _strip_tag_version without `tag.startswith(version + '-')`: a tag that
\* starts with the version is taken for a tag without one
_strip_tag_version_only_equal(tag, semver_versions) ==
    IF tag = None THEN None
    ELSE IF \E k \in 1..Len(semver_versions) : tag = semver_versions[k]
    THEN <<>>
    ELSE tag

\* _strip_tag_version looking at the first version only
_strip_tag_version_first_only(tag, semver_versions) ==
    IF tag = None THEN None
    ELSE IF Len(semver_versions) = 0 THEN tag
    ELSE LET version == semver_versions[1]
         IN  IF tag = version THEN <<>>
             ELSE IF StartsWith(tag, version \o <<"-">>)
             THEN Drop(tag, Len(version) + 1)
             ELSE tag

\* _strip_tag_version that returns '' for a tag that starts with a version
_strip_tag_version_drops_rest(tag, semver_versions) ==
    IF tag = None THEN None
    ELSE IF \E k \in 1..Len(semver_versions) :
               \/ tag = semver_versions[k]
               \/ StartsWith(tag, semver_versions[k] \o <<"-">>)
    THEN <<>>
    ELSE tag

\* _strip_tag_version(tag, semver_versions)
RECURSIVE _strip_tag_version(_, _)
_strip_tag_version(tag, semver_versions) ==
    IF tag = None THEN None
    ELSE IF Len(semver_versions) = 0 THEN tag
    ELSE LET version == semver_versions[1]
         IN  IF tag = version THEN <<>>
             ELSE IF StartsWith(tag, version \o <<"-">>)
             THEN Drop(tag, Len(version) + 1)
             ELSE _strip_tag_version(tag, Tail(semver_versions))

\* VersionTagger.__init__(versions, suffix, latest): the object's fields
VersionTagger(versions, suffix, latest_flag) ==
    [ _prefixes   |-> IF suffix # None
                      THEN IF Len(versions) > 0
                           THEN [k \in 1..Len(versions) |->
                                    _join_tag_parts(<<versions[k], suffix>>)]
                           ELSE <<suffix>>
                      ELSE versions,
      _suffix     |-> suffix,
      _latest     |-> latest_flag,
      _latest_tag |-> IF suffix # None THEN suffix ELSE latest ]

\* A str's truth value: None and '' are false.
Truthy(s) == s # None /\ s # <<>>

\* versioned_tags without `stripped_tag != 'latest'`
versioned_tags_latest_kept(self, stripped_tag) ==
    IF Truthy(stripped_tag)
    THEN [k \in 1..Len(self._prefixes) |->
             _join_tag_parts(<<self._prefixes[k], stripped_tag>>)]
    ELSE self._prefixes

\* VersionTagger.generate_tags, lines 132-136: the versioned tags
versioned_tags(self, stripped_tag) ==
    IF Truthy(stripped_tag) /\ stripped_tag # latest
    THEN [k \in 1..Len(self._prefixes) |->
             _join_tag_parts(<<self._prefixes[k], stripped_tag>>)]
    ELSE self._prefixes

\* latest_tag that is always the tagger's own latest tag
latest_tag_fixed(self, stripped_tag) == self._latest_tag

\* VersionTagger.generate_tags, lines 139-143: the tag without the version
latest_tag(self, stripped_tag) ==
    IF Truthy(stripped_tag)
    THEN IF Truthy(self._suffix)
         THEN _join_tag_parts(<<self._suffix, stripped_tag>>)
         ELSE stripped_tag
    ELSE self._latest_tag

\* VersionTagger.generate_tags(self, tag)
VersionTagger_generate_tags(self, tag) ==
    LET stripped_tag == _strip_tag_version(tag, self._prefixes)
    IN  IF self._latest
        THEN Append(versioned_tags(self, stripped_tag),
                    latest_tag(self, stripped_tag))
        ELSE versioned_tags(self, stripped_tag)

(***************************************************************************)
(* Versions                                                                *)
(***************************************************************************)

\* re.sub(r'[.-]?\w+$', r'', remaining_version): the leftmost match is the
\* run of \w that ends the string, with the '.' or '-' before it.
RECURSIVE WordRunStart(_, _)
WordRunStart(s, k) ==
    IF k >= 1 /\ s[k] \in WordChar THEN WordRunStart(s, k - 1) ELSE k + 1

strip_last_part(remaining_version0) ==
    LET s == BeforeDollar(remaining_version0)
        w == WordRunStart(s, Len(s))
        b == IF w > 1 /\ s[w - 1] \in {".", "-"} THEN w - 1 ELSE w
    IN  IF w > Len(s) THEN remaining_version0
        ELSE SubSeq(remaining_version0, 1, b - 1)
             \o Drop(remaining_version0, Len(s))

\* sub_versions that starts after the first removal
sub_versions_without_full(remaining_version) ==
    LET RECURSIVE rest(_)
        rest(v) == IF v = <<>> THEN <<>>
                   ELSE <<v>> \o rest(strip_last_part(v))
    IN  IF remaining_version = <<>> THEN <<>>
        ELSE rest(strip_last_part(remaining_version))

\* generate_semver_versions, lines 186-190: the while loop
RECURSIVE sub_versions(_)
sub_versions(remaining_version) ==
    IF remaining_version = <<>> THEN <<>>
    ELSE <<remaining_version>> \o sub_versions(strip_last_part(remaining_version))

\* '%d' % n
RECURSIVE str_int(_)
str_int(n) ==
    IF n < 0 THEN <<"-">> \o str_int(0 - n)
    ELSE IF n < 10 THEN <<CHOOSE d \in Digit : ToString(n) = d>>
    ELSE str_int(n \div 10) \o str_int(n % 10)

\* generate_semver_versions, lines 193-195: the message of the ValueError
precision_error_message(precision, version, n) ==
    << "T", "h", "e", " ", "m", "i", "n", "i", "m", "u", "m", " ", "p", "r",
       "e", "c", "i", "s", "i", "o", "n", " ", "(" >>
    \o str_int(precision)
    \o << ")", " ", "i", "s", " ", "g", "r", "e", "a", "t", "e", "r", " ",
          "t", "h", "a", "n", " ", "t", "h", "e", " ", "p", "r", "e", "c",
          "i", "s", "i", "o", "n", " ", "o", "f", " ", "v", "e", "r", "s",
          "i", "o", "n", " ", "'" >>
    \o version
    \o <<"'", " ", "(">> \o str_int(n) \o <<")">>

\* generate_semver_versions that also refuses a precision equal to the
\* number of sub-versions
generate_semver_versions_ge(version, precision, zero) ==
    LET all     == sub_versions(version)
        cut     == IF precision > 1
                   THEN SubSeq(all, 1, Len(all) - (precision - 1))
                   ELSE all
    IN  IF precision >= Len(all) THEN ValueErrorList
        ELSE IF ~zero /\ Len(cut) > 1 /\ cut[Len(cut)] = <<"0">>
        THEN SubSeq(cut, 1, Len(cut) - 1)
        ELSE cut

\* generate_semver_versions that drops a last '0' without looking at `zero`
\* or at the length of the list
generate_semver_versions_drop_zero(version, precision, zero) ==
    LET all     == sub_versions(version)
        cut     == IF precision > 1
                   THEN SubSeq(all, 1, Len(all) - (precision - 1))
                   ELSE all
    IN  IF precision > Len(all) THEN ValueErrorList
        ELSE IF Len(cut) > 0 /\ cut[Len(cut)] = <<"0">>
        THEN SubSeq(cut, 1, Len(cut) - 1)
        ELSE cut

\* generate_semver_versions that leaves one sub-version too many at a
\* precision above 1
generate_semver_versions_cut_short(version, precision, zero) ==
    LET all     == sub_versions(version)
        cut     == IF precision > 1
                   THEN SubSeq(all, 1, Len(all) - (precision - 2))
                   ELSE all
    IN  IF precision > Len(all) THEN ValueErrorList
        ELSE IF ~zero /\ Len(cut) > 1 /\ cut[Len(cut)] = <<"0">>
        THEN SubSeq(cut, 1, Len(cut) - 1)
        ELSE cut

\* generate_semver_versions(version, precision, zero), or ValueError
generate_semver_versions(version, precision, zero) ==
    LET all     == sub_versions(version)
        cut     == IF precision > 1
                   THEN SubSeq(all, 1, Len(all) - (precision - 1))
                   ELSE all
    IN  IF precision > Len(all) THEN ValueErrorList
        ELSE IF ~zero /\ Len(cut) > 1 /\ cut[Len(cut)] = <<"0">>
        THEN SubSeq(cut, 1, Len(cut) - 1)
        ELSE cut

HashShortLen == 7

\* generate_git_versions(_hash, hash_short)
generate_git_versions(_hash, hash_short) ==
    IF hash_short THEN <<_hash, Take(_hash, HashShortLen)>> ELSE <<_hash>>

(***************************************************************************)
(* generate_tags                                                           *)
(***************************************************************************)

\* A tagger (or None) run over every tag of a list, the results concatenated
RECURSIVE extend_tags(_, _)
extend_tags(a_tagger, in_tags) ==
    IF a_tagger = NoneObject THEN in_tags
    ELSE IF Len(in_tags) = 0 THEN <<>>
    ELSE VersionTagger_generate_tags(a_tagger, in_tags[1])
         \o extend_tags(a_tagger, Tail(in_tags))

\* generate_tags that returns no tags where split_image_tag or the registry
\* tagger raises
generate_tags_swallows(image_tag, a_tags, a_version_tagger, a_git_tagger, a_registry_tagger) ==
    LET split          == split_image_tag(image_tag)
        image          == split[1]
        tag            == split[2]
        registry_image == IF a_registry_tagger # NoneObject
                          THEN RegistryTagger_generate_tag(
                                   a_registry_tagger._registry, image)
                          ELSE image
        new_tags       == IF a_tags # NoneList THEN a_tags ELSE <<tag>>
        git_tags       == extend_tags(a_git_tagger, new_tags)
        version_tags   == extend_tags(a_version_tagger, git_tags)
    IN  IF split = ValueErrorList THEN <<>>
        ELSE IF registry_image = ValueError THEN <<>>
        ELSE [k \in 1..Len(version_tags) |->
                 join_image_tag(registry_image, version_tags[k])]

\* generate_tags(image_tag, tags, version_tagger, git_tagger,
\* registry_tagger): the list of tags for this image, or ValueError.
\* a_tags is what iterating `tags` yields (NoneList when tags is None).
generate_tags(image_tag, a_tags, a_version_tagger, a_git_tagger, a_registry_tagger) ==
    LET split          == split_image_tag(image_tag)
        image          == split[1]
        tag            == split[2]
        registry_image == IF a_registry_tagger # NoneObject
                          THEN RegistryTagger_generate_tag(
                                   a_registry_tagger._registry, image)
                          ELSE image
        new_tags       == IF a_tags # NoneList THEN a_tags ELSE <<tag>>
        git_tags       == extend_tags(a_git_tagger, new_tags)
        version_tags   == extend_tags(a_version_tagger, git_tags)
    IN  IF split = ValueErrorList THEN ValueErrorList
        ELSE IF registry_image = ValueError THEN ValueErrorList
        ELSE [k \in 1..Len(version_tags) |->
                 join_image_tag(registry_image, version_tags[k])]

(***************************************************************************)
(* The arguments an invocation is given                                    *)
(***************************************************************************)

MaxImages == 2

MaxTags == 2

v_1_2 == <<"1", ".", "2">>

\* Image references: untagged, tagged, tagged with the version, malformed
ImagePool ==
    { <<"a">>, <<"a", ":", "x">>, <<"b", ":", "1", ".", "2">>, <<"A">> }

TagPool == { <<"x">>, latest }

RegistryPool == { None, <<"r", ":", "5">> }

BranchPool == { <<"m">> }

HashPool == { <<"a", "b", "c", "d", "e", "f", "0", "1", "2", "3">> }

\* What the docker client returns
RetCodes == {0, 1}

SeqsUpTo(S, n) == UNION {[1..m -> S] : m \in 1..n}

NoVersionArgs ==
    [version |-> None, version_latest |-> FALSE, version_semver |-> FALSE,
     semver_precision |-> 0, semver_zero |-> FALSE,
     tag_version |-> None, tag_latest |-> FALSE, tag_semver |-> FALSE]

\* --version and the options that go with it, as main accepts them
VersionArgs ==
    { NoVersionArgs,
      [NoVersionArgs EXCEPT !.version = v_1_2],
      [NoVersionArgs EXCEPT !.version = v_1_2, !.version_latest = TRUE],
      [NoVersionArgs EXCEPT !.version = v_1_2, !.version_semver = TRUE],
      [NoVersionArgs EXCEPT !.tag_version = v_1_2, !.tag_latest = TRUE] }

\* --version-latest and --version-semver, and the deprecated --tag-latest
\* and --tag-semver, without a version
FlagOnlyArgs ==
    { [NoVersionArgs EXCEPT !.version_latest = TRUE],
      [NoVersionArgs EXCEPT !.version_semver = TRUE],
      [NoVersionArgs EXCEPT !.tag_latest = TRUE],
      [NoVersionArgs EXCEPT !.tag_semver = TRUE] }

\* A precision that the version does not have; a semver_precision of 0 is
\* the option not given (None), which main reads as 1
TooPreciseArgs ==
    { [NoVersionArgs EXCEPT !.version = v_1_2, !.version_semver = TRUE,
                            !.semver_precision = 3] }

NoGitArgs ==
    [git_branch |-> FALSE, git_hash |-> FALSE, hash_latest |-> FALSE,
     hash_short |-> FALSE]

\* The Git options, as main accepts them
GitArgs ==
    { NoGitArgs,
      [NoGitArgs EXCEPT !.git_branch = TRUE, !.git_hash = TRUE,
                        !.hash_latest = TRUE] }

\* --hash-short without --git-hash
HashShortOnlyArgs == { [NoGitArgs EXCEPT !.hash_short = TRUE] }

str_login_option == <<"-", "-", "l", "o", "g", "i", "n">>

\* 'USER:PASSWORD'
str_credentials == <<"u", ":", "p", "w">>

\* The arguments of raw_args that are no argument of the parser: none, or
\* --login USER:PASSWORD
UnrecognizedPool == { <<>>, <<str_login_option, str_credentials>> }

\* The argparse namespace parse_args returns for the options given, with
\* the raw arguments that parse_args does not recognize
Namespace(im, tg, va, ga, rg, vb, dr, un) ==
    [image            |-> im,
     tag              |-> tg,
     version          |-> va.version,
     version_latest   |-> va.version_latest,
     version_semver   |-> va.version_semver,
     semver_precision |-> va.semver_precision,
     semver_zero      |-> va.semver_zero,
     tag_version      |-> va.tag_version,
     tag_latest       |-> va.tag_latest,
     tag_semver       |-> va.tag_semver,
     git_branch       |-> ga.git_branch,
     git_hash         |-> ga.git_hash,
     hash_latest      |-> ga.hash_latest,
     hash_short       |-> ga.hash_short,
     registry         |-> rg,
     verbose          |-> vb,
     dry_run          |-> dr,
     unrecognized     |-> un]

\* The invocations whose arguments parse_args recognizes
ArgsPool ==
    { Namespace(im, tg, va, ga, rg, vb, dr, <<>>) :
        im \in SeqsUpTo(ImagePool, MaxImages),
        tg \in {NoneList} \cup SeqsUpTo(TagPool, MaxTags),
        va \in VersionArgs, ga \in GitArgs, rg \in RegistryPool,
        vb \in BOOLEAN, dr \in BOOLEAN }

\* The invocations that end before a tag is computed: a flag without its
\* version or its --git-hash, or a precision that is too high
FailingPool ==
    { Namespace(im, tg, va, ga, rg, FALSE, dr, <<>>) :
        im \in SeqsUpTo(ImagePool, MaxImages),
        tg \in {NoneList} \cup SeqsUpTo(TagPool, 1),
        va \in FlagOnlyArgs \cup TooPreciseArgs,
        ga \in GitArgs \cup HashShortOnlyArgs,
        rg \in RegistryPool, dr \in BOOLEAN }
    \cup
    { Namespace(im, tg, va, ga, rg, FALSE, dr, <<>>) :
        im \in SeqsUpTo(ImagePool, MaxImages),
        tg \in {NoneList} \cup SeqsUpTo(TagPool, 1),
        va \in VersionArgs, ga \in HashShortOnlyArgs,
        rg \in RegistryPool, dr \in BOOLEAN }

\* The invocations with arguments that parse_args does not recognize
LoginPool ==
    { Namespace(im, tg, va, NoGitArgs, rg, FALSE, dr, un) :
        im \in SeqsUpTo(ImagePool, MaxImages),
        tg \in {NoneList} \cup SeqsUpTo(TagPool, 1),
        va \in VersionArgs, rg \in RegistryPool, dr \in BOOLEAN,
        un \in UnrecognizedPool \ {<<>>} }

(***************************************************************************)
(* cmd and DockerRunner                                                    *)
(***************************************************************************)

str_docker == <<"d", "o", "c", "k", "e", "r">>

str_tag == <<"t", "a", "g">>

str_push == <<"p", "u", "s", "h">>

\* cmd without the check of the return code
cmd_never_raises(retcode) == FALSE

\* cmd, lines 284-286: a non-zero return code raises CalledProcessError
cmd_raises(retcode) == retcode # 0

\* _log that writes under --verbose only, whatever if_verbose says
_log_verbose_only(lines, line_args, if_verbose, verbose) ==
    IF ~verbose THEN lines
    ELSE Append(lines, Join(line_args, <<" ">>))

\* DockerRunner._log(*args, if_verbose): the lines the logger has been given;
\* print(*args) writes the arguments with a space between them
_log(lines, line_args, if_verbose, verbose) ==
    IF if_verbose /\ ~verbose THEN lines
    ELSE Append(lines, Join(line_args, <<" ">>))

\* 'Not tagging "%s" as itself' % (in_tag,)
not_tagging_line(in_tag) ==
    <<"N", "o", "t", " ", "t", "a", "g", "g", "i", "n", "g", " ", "\"">>
    \o in_tag \o <<"\"", " ", "a", "s", " ", "i", "t", "s", "e", "l", "f">>

\* 'Tagging "%s" as "%s"...' % (in_tag, out_tag)
tagging_line(in_tag, out_tag) ==
    <<"T", "a", "g", "g", "i", "n", "g", " ", "\"">> \o in_tag
    \o <<"\"", " ", "a", "s", " ", "\"">> \o out_tag
    \o <<"\"", ".", ".", ".">>

\* 'Pushing tag "%s"...' % (tag,)
pushing_line(tag) ==
    <<"P", "u", "s", "h", "i", "n", "g", " ", "t", "a", "g", " ", "\"">>
    \o tag \o <<"\"", ".", ".", ".">>

\* docker_tag without the check for an image tagged as itself
docker_tag_never_skips(in_tag, out_tag) == FALSE

\* DockerRunner.docker_tag, line 315: an image is not tagged as itself
docker_tag_skips(in_tag, out_tag) == in_tag = out_tag

\* DockerRunner._docker_cmd(args), called with the log as it stands, where
\* the docker client would return retcode: the calls, the log and whether
\* cmd raised.  In a dry run the command is logged and no process started.
_docker_cmd(a_log, docker_args, retcode) ==
    LET argv == <<str_docker>> \o docker_args
    IN  IF args.dry_run
        THEN [calls  |-> Append(calls, [argv |-> argv, started |-> FALSE,
                                        retcode |-> 0]),
              log    |-> _log(a_log, argv, FALSE, args.verbose),
              raised |-> FALSE]
        ELSE [calls  |-> Append(calls, [argv |-> argv, started |-> TRUE,
                                        retcode |-> retcode]),
              log    |-> a_log,
              raised |-> cmd_raises(retcode)]

\* DockerRunner.docker_tag(in_tag, out_tag)
docker_tag(in_tag, out_tag, retcode) ==
    IF docker_tag_skips(in_tag, out_tag)
    THEN [calls  |-> calls,
          log    |-> _log(log, <<not_tagging_line(in_tag)>>, TRUE,
                          args.verbose),
          raised |-> FALSE]
    ELSE _docker_cmd(_log(log, <<tagging_line(in_tag, out_tag)>>, TRUE,
                          args.verbose),
                     <<str_tag, in_tag, out_tag>>, retcode)

\* DockerRunner.docker_push(tag)
docker_push(tag, retcode) ==
    _docker_cmd(_log(log, <<pushing_line(tag)>>, TRUE, args.verbose),
                <<str_push, tag>>, retcode)

(***************************************************************************)
(* main                                                                    *)
(***************************************************************************)

\* _resolve_deprecated_arguments(args): --tag-version, --tag-latest and
\* --tag-semver set the option that replaced them, unless it is set
_resolve_deprecated_arguments(a) ==
    [a EXCEPT
        !.version        = IF a.tag_version # None /\ ~Truthy(a.version)
                           THEN a.tag_version ELSE a.version,
        !.version_latest = a.version_latest \/ a.tag_latest,
        !.version_semver = a.version_semver \/ a.tag_semver]

\* main, line 426: parse_args exits with status 2 when raw_args holds
\* arguments it does not recognize
parse_args_error(a) == a.unrecognized # <<>>

\* parser_error without the two checks for --version
parser_error_without_version(a) ==
    \/ a.semver_precision # 0 /\ ~a.version_semver
    \/ a.semver_zero /\ ~a.version_semver
    \/ a.hash_latest /\ ~a.git_hash
    \/ a.hash_short /\ ~a.git_hash

\* main, lines 429-442: the options parser.error() rejects
parser_error(a) ==
    \/ a.version_latest /\ ~Truthy(a.version)
    \/ a.version_semver /\ ~Truthy(a.version)
    \/ a.semver_precision # 0 /\ ~a.version_semver
    \/ a.semver_zero /\ ~a.version_semver
    \/ a.hash_latest /\ ~a.git_hash
    \/ a.hash_short /\ ~a.git_hash

\* main, lines 449-457: the versions of the version tagger (ValueErrorList
\* when the precision is too high, NoneList without --version)
main_versions(a) ==
    IF ~Truthy(a.version) THEN NoneList
    ELSE IF a.version_semver
    THEN generate_semver_versions(
             a.version,
             IF a.semver_precision # 0 THEN a.semver_precision ELSE 1,
             a.semver_zero)
    ELSE <<a.version>>

\* main, lines 464-477: the Git tagger, from what the git client printed
main_git_tagger(a, branch_out, hash_out) ==
    IF a.git_branch \/ a.git_hash
    THEN VersionTagger(
             IF a.git_hash THEN generate_git_versions(hash_out, a.hash_short)
             ELSE <<>>,
             IF a.git_branch THEN branch_out ELSE None,
             a.hash_latest)
    ELSE NoneObject

\* tag_pairs with every pair kept once, where it comes first
RECURSIVE tag_pairs_once(_)
tag_pairs_once(a_tag_map) ==
    IF Len(a_tag_map) = 0 THEN <<>>
    ELSE LET n     == Len(a_tag_map)
             front == tag_pairs_once(SubSeq(a_tag_map, 1, n - 1))
             seen  == {front[k][2] : k \in 1..Len(front)}
             own   == a_tag_map[n].push_tags
             fresh == SelectSeq(
                          [m \in 1..Len(own) |-> <<m, own[m]>>],
                          LAMBDA e : /\ e[2] \notin seen
                                     /\ \A m \in 1..(e[1] - 1) : own[m] # e[2])
         IN  front \o [m \in 1..Len(fresh) |->
                          <<a_tag_map[n].image, fresh[m][2]>>]

\* The (image, push_tag) pairs in the order that the loops
\*     for image, push_tags in tag_map: for push_tag in push_tags:
\* visit them
RECURSIVE tag_pairs(_)
tag_pairs(a_tag_map) ==
    IF Len(a_tag_map) = 0 THEN <<>>
    ELSE [m \in 1..Len(a_tag_map[1].push_tags) |->
             <<a_tag_map[1].image, a_tag_map[1].push_tags[m]>>]
         \o tag_pairs(Tail(a_tag_map))

\* next_phase with the two loops the other way round
next_phase_push_first(phase) ==
    CASE phase = "generate" -> "push"
      [] phase = "push"     -> "tag"
      [] phase = "tag"      -> "done"

\* main, lines 483-493: what follows the tag map, and each loop
next_phase(phase) ==
    CASE phase = "generate" -> "tag"
      [] phase = "tag"      -> "push"
      [] phase = "push"     -> "done"

\* The phase that runs after `phase`; a loop over nothing is passed through.
RECURSIVE phase_after(_, _)
phase_after(phase, a_tag_map) ==
    LET next == next_phase(phase)
    IN  IF next # "done" /\ Len(tag_pairs(a_tag_map)) = 0
        THEN phase_after(next, a_tag_map)
        ELSE next

\* main, lines 426-477: parse the arguments and build the taggers.  The git
\* client, when it is run, fails or prints a branch and a hash.
main_setup ==
    /\ pc = "start"
    /\ \E git_ok \in BOOLEAN, branch_out \in BranchPool, hash_out \in HashPool :
          LET a        == _resolve_deprecated_arguments(args)
              versions == main_versions(a)
              with_git == a.git_branch \/ a.git_hash
              stop     == IF parse_args_error(args) \/ parser_error(a)
                          THEN "SystemExit_2"
                          ELSE IF versions = ValueErrorList THEN "ValueError"
                          ELSE IF with_git /\ ~git_ok
                          THEN "CalledProcessError"
                          ELSE "no"
          IN  /\ args' = IF parse_args_error(args) THEN args ELSE a
              /\ pc' = IF stop = "no" THEN "generate" ELSE stop
              /\ tags' = IF stop = "SystemExit_2" THEN tags ELSE a.tag
              /\ version_tagger' =
                    IF stop \in {"no", "CalledProcessError"}
                       /\ versions # NoneList
                    THEN VersionTagger(versions, None, a.version_latest)
                    ELSE NoneObject
              /\ registry_tagger' =
                    IF stop \in {"no", "CalledProcessError"} /\ Truthy(a.registry)
                    THEN [_registry |-> a.registry]
                    ELSE NoneObject
              /\ git_tagger' =
                    IF stop = "no"
                    THEN main_git_tagger(a, branch_out, hash_out)
                    ELSE NoneObject
    /\ UNCHANGED <<tag_map, i, calls, log, taggerVars, funcVars>>

\* main, line 483: generate_tags for the next image of the list.  Iterating
\* the chain `tags` leaves it exhausted.
main_generate ==
    /\ pc = "generate"
    /\ LET image     == args.image[i]
           push_tags == generate_tags(image, tags, version_tagger, git_tagger,
                                      registry_tagger)
           new_map   == Append(tag_map,
                               [image |-> image, push_tags |-> push_tags])
       IN  IF push_tags = ValueErrorList
           THEN /\ pc' = "ValueError"
                /\ UNCHANGED <<tags, tag_map, i>>
           ELSE /\ tag_map' = new_map
                /\ tags' = IF tags = NoneList THEN NoneList ELSE <<>>
                /\ IF i < Len(args.image)
                   THEN i' = i + 1 /\ pc' = pc
                   ELSE i' = 1 /\ pc' = phase_after("generate", new_map)
    /\ UNCHANGED <<args, version_tagger, git_tagger, registry_tagger, calls,
                   log, taggerVars, funcVars>>

\* What follows one step of a loop over the pairs: the error, the next
\* pair, or the next phase.
loop_step(raised) ==
    IF raised THEN pc' = "CalledProcessError" /\ i' = i
    ELSE IF i < Len(tag_pairs(tag_map)) THEN pc' = pc /\ i' = i + 1
    ELSE pc' = phase_after(pc, tag_map) /\ i' = 1

\* main, lines 486-488: runner.docker_tag(image, push_tag), where the
\* docker client, if it is run, returns retcode
main_tag ==
    /\ pc = "tag"
    /\ \E retcode \in RetCodes :
          LET pair == tag_pairs(tag_map)[i]
              ran  == docker_tag(pair[1], pair[2], retcode)
          IN  /\ calls' = ran.calls
              /\ log' = ran.log
              /\ loop_step(ran.raised)
    /\ UNCHANGED <<args, tags, version_tagger, git_tagger, registry_tagger,
                   tag_map, taggerVars, funcVars>>

\* main, lines 491-493: runner.docker_push(push_tag)
main_push ==
    /\ pc = "push"
    /\ \E retcode \in RetCodes :
          LET pair == tag_pairs(tag_map)[i]
              ran  == docker_push(pair[2], retcode)
          IN  /\ calls' = ran.calls
              /\ log' = ran.log
              /\ loop_step(ran.raised)
    /\ UNCHANGED <<args, tags, version_tagger, git_tagger, registry_tagger,
                   tag_map, taggerVars, funcVars>>

TaggerIdle ==
    /\ tagger = NoneObject
    /\ tagger_tag = None
    /\ tagger_ret = NoneList

FuncIdle ==
    /\ fn = "none"
    /\ fn_args = <<>>
    /\ fn_ret = NoneList
    /\ locals = NoneObject

Init ==
    /\ \/ args \in ArgsPool
       \/ args \in FailingPool
       \/ args \in LoginPool
    /\ pc = "start"
    /\ tags = NoneList
    /\ version_tagger = NoneObject
    /\ git_tagger = NoneObject
    /\ registry_tagger = NoneObject
    /\ tag_map = <<>>
    /\ i = 1
    /\ calls = <<>>
    /\ log = <<>>
    /\ TaggerIdle
    /\ FuncIdle

Next ==
    \/ main_setup
    \/ main_generate
    \/ main_tag
    \/ main_push

Spec == Init /\ [][Next]_vars

(***************************************************************************)
(* Claims about main (checked under Spec)                                  *)
(***************************************************************************)

\* The tag map is complete: both loops run over it
TagMapBuilt == pc \in {"tag", "push", "done"}

IsTagCall(c) == c.argv[2] = str_tag

IsPushCall(c) == c.argv[2] = str_push

\* What was pushed, in the order of the calls
Pushed ==
    LET pushes == SelectSeq(calls, IsPushCall)
    IN  [k \in 1..Len(pushes) |-> pushes[k].argv[3]]

\* What was renamed to what, in the order of the calls
Renamed ==
    LET renames == SelectSeq(calls, IsTagCall)
    IN  [k \in 1..Len(renames) |-> <<renames[k].argv[3], renames[k].argv[4]>>]

\* The output references of the tag map: image by image, and for an image
\* in the order they were computed
Computed == Flatten([k \in 1..Len(tag_map) |-> tag_map[k].push_tags])

\* The image of each output reference, in the same order
ComputedFrom ==
    Flatten([k \in 1..Len(tag_map) |->
                [m \in 1..Len(tag_map[k].push_tags) |-> tag_map[k].image]])

Differs(pair) == pair[1] # pair[2]

\* The renames the tag map asks for: every pair whose two strings differ
RenamesNeeded ==
    SelectSeq([k \in 1..Len(Computed) |-> <<ComputedFrom[k], Computed[k]>>],
              Differs)

\* C1: with --tag given and no version, Git or registry option, the tag
\* list of every image ik (the first and the later ones) is
\* name(ik):t1 .. name(ik):tm for the tags t1 .. tm given.
C1_EveryImageGetsEveryTag ==
    ( /\ TagMapBuilt
      /\ args.tag # NoneList
      /\ version_tagger = NoneObject
      /\ git_tagger = NoneObject
      /\ registry_tagger = NoneObject )
    => \A k \in 1..Len(args.image) :
          tag_map[k].push_tags =
              [m \in 1..Len(args.tag) |->
                  split_image_tag(args.image[k])[1] \o <<":">> \o args.tag[m]]

\* C2: a run without failure pushes exactly the computed output references,
\* image by image in the order of the images and in computed order for
\* each; a reference computed k times is pushed k times.
C2_PushesAreComputedInOrder == pc = "done" => Pushed = Computed

C2_Witness ==
    /\ pc = "done"
    /\ Len(args.image) = 2
    /\ \E k \in 1..Len(Pushed) : \E m \in (k + 1)..Len(Pushed) :
          Pushed[k] = Pushed[m]

\* C3: no rename follows a push, and when the first push is issued every
\* rename the tag map asks for has been issued.
C3_RenamesBeforePushes ==
    \A k \in 1..Len(calls) :
        IsPushCall(calls[k])
        => /\ \A m \in k..Len(calls) : IsPushCall(calls[m])
           /\ Renamed = RenamesNeeded

C3_Witness ==
    /\ pc = "push"
    /\ Len(Pushed) >= 1
    /\ Len(Renamed) >= 2
    /\ Len(tag_map) = 2

\* C4: a rename is issued for an (input reference, final reference) pair
\* exactly if the two strings differ; the final reference of a pair of
\* identical strings is pushed all the same.
C4_RenameIffDifferent ==
    /\ \A k \in 1..Len(Renamed) : Renamed[k][1] # Renamed[k][2]
    /\ pc \in {"push", "done"} => Renamed = RenamesNeeded
    /\ pc = "done"
       => \A k \in 1..Len(Computed) :
             ComputedFrom[k] = Computed[k]
             => \E m \in 1..Len(Pushed) : Pushed[m] = Computed[k]

C4_Witness ==
    /\ pc = "done"
    /\ \E k \in 1..Len(Computed) :
          /\ ComputedFrom[k] = Computed[k]
          /\ \E m \in 1..Len(Pushed) : Pushed[m] = Computed[k]
    /\ Len(Renamed) >= 1

\* C5: a rename or push that fails ends the invocation: the failed call is
\* the last call, it is made once, and no call follows it.
C5_FailureStopsTheRun ==
    [][ /\ \A k \in 1..Len(calls') :
              calls'[k].retcode # 0
              => k = Len(calls') /\ pc' = "CalledProcessError"
        /\ pc = "CalledProcessError" => UNCHANGED <<pc, calls>> ]_vars

C5_Witness ==
    /\ pc = "CalledProcessError"
    /\ Len(calls) >= 2
    /\ IsTagCall(calls[Len(calls)])
    /\ calls[Len(calls)].retcode # 0
    /\ Len(calls) < Len(RenamesNeeded)

(***************************************************************************)
(* The taggers main builds, called on their own                            *)
(***************************************************************************)

MaxPrecision == 2

str_x == <<"x">>

str_latest_suffix == <<"-">> \o latest

\* --version values: two parts, a leading zero, a pre-release part, and a
\* version that ends in -latest
VersionPool ==
    { v_1_2, <<"0", ".", "1">>, v_1_2 \o <<"-">> \o str_x,
      v_1_2 \o str_latest_suffix }

\* The version options main accepts (lines 429-436)
TaggerVersionArgs ==
    { [NoVersionArgs EXCEPT !.version = v, !.version_latest = l] :
        v \in VersionPool, l \in BOOLEAN }
    \cup
    { [NoVersionArgs EXCEPT !.version = v, !.version_latest = l,
                            !.version_semver = TRUE,
                            !.semver_precision = p, !.semver_zero = z] :
        v \in VersionPool, l \in BOOLEAN, p \in 0..MaxPrecision,
        z \in BOOLEAN }

\* The Git options main accepts (lines 438-442) that build a Git tagger
TaggerGitArgs ==
    { ga \in [git_branch : BOOLEAN, git_hash : BOOLEAN,
              hash_latest : BOOLEAN, hash_short : BOOLEAN] :
        /\ ga.git_branch \/ ga.git_hash
        /\ ga.hash_latest => ga.git_hash
        /\ ga.hash_short => ga.git_hash }

TaggerArgs(va, ga) ==
    [image            |-> << <<"a">> >>,
     tag              |-> NoneList,
     version          |-> va.version,
     version_latest   |-> va.version_latest,
     version_semver   |-> va.version_semver,
     semver_precision |-> va.semver_precision,
     semver_zero      |-> va.semver_zero,
     tag_version      |-> va.tag_version,
     tag_latest       |-> va.tag_latest,
     tag_semver       |-> va.tag_semver,
     git_branch       |-> ga.git_branch,
     git_hash         |-> ga.git_hash,
     hash_latest      |-> ga.hash_latest,
     hash_short       |-> ga.hash_short,
     registry         |-> None,
     verbose          |-> FALSE,
     dry_run          |-> FALSE,
     unrecognized     |-> <<>>]

TaggerArgsPool ==
    { TaggerArgs(va, NoGitArgs) : va \in TaggerVersionArgs }
    \cup { TaggerArgs(NoVersionArgs, ga) : ga \in TaggerGitArgs }

\* The tags a tagger is given: none, empty, plain, 'latest', and for each of
\* its prefixes p: p, p-x, p-latest and p-p-latest
TagInputs(self) ==
    { None, <<>>, str_x, latest, str_x \o str_latest_suffix }
    \cup UNION { { self._prefixes[k],
                   self._prefixes[k] \o <<"-">> \o str_x,
                   self._prefixes[k] \o str_latest_suffix,
                   self._prefixes[k] \o <<"-">> \o self._prefixes[k]
                       \o str_latest_suffix } :
                 k \in 1..Len(self._prefixes) }

\* main, lines 449-455: the version tagger of --version
tagger_init_version ==
    /\ pc = "tagger"
    /\ tagger = NoneObject
    /\ ~parser_error(args)
    /\ main_versions(args) \notin {NoneList, ValueErrorList}
    /\ tagger' = VersionTagger(main_versions(args), None, args.version_latest)
    /\ UNCHANGED <<mainVars, tagger_tag, tagger_ret, funcVars>>

\* main, lines 464-475: the Git tagger of --git-branch and --git-hash
tagger_init_git ==
    /\ pc = "tagger"
    /\ tagger = NoneObject
    /\ ~parser_error(args)
    /\ args.git_branch \/ args.git_hash
    /\ \E branch_out \in BranchPool, hash_out \in HashPool :
          tagger' = main_git_tagger(args, branch_out, hash_out)
    /\ UNCHANGED <<mainVars, tagger_tag, tagger_ret, funcVars>>

\* generate_tags, lines 242 and 250: tagger.generate_tags(tag)
tagger_generate_tags ==
    /\ pc = "tagger"
    /\ tagger # NoneObject
    /\ \E tag \in TagInputs(tagger) :
          /\ tagger_tag' = tag
          /\ tagger_ret' = VersionTagger_generate_tags(tagger, tag)
    /\ UNCHANGED <<mainVars, tagger, funcVars>>

\* The longest tag that is given back to a tagger
MaxTagLength == 40

\* tagger.generate_tags(tag) for a tag that its last call returned; a
\* tagger without latest-inclusion, whose tags do not grow with each call
tagger_generate_tags_again ==
    /\ pc = "tagger"
    /\ tagger # NoneObject
    /\ ~tagger._latest
    /\ tagger_ret # NoneList
    /\ \E k \in 1..Len(tagger_ret) :
          /\ Len(tagger_ret[k]) <= MaxTagLength
          /\ tagger_tag' = tagger_ret[k]
          /\ tagger_ret' = VersionTagger_generate_tags(tagger, tagger_ret[k])
    /\ UNCHANGED <<mainVars, tagger, funcVars>>

TaggerInit ==
    /\ args \in TaggerArgsPool
    /\ pc = "tagger"
    /\ tags = NoneList
    /\ version_tagger = NoneObject
    /\ git_tagger = NoneObject
    /\ registry_tagger = NoneObject
    /\ tag_map = <<>>
    /\ i = 1
    /\ calls = <<>>
    /\ log = <<>>
    /\ TaggerIdle
    /\ FuncIdle

TaggerNext ==
    \/ tagger_init_version
    \/ tagger_init_git
    \/ tagger_generate_tags
    \/ tagger_generate_tags_again

TaggerSpec == TaggerInit /\ [][TaggerNext]_vars

(***************************************************************************)
(* Claims about the taggers (checked under TaggerSpec)                     *)
(***************************************************************************)

\* generate_tags has been called on the tagger and has returned
CallMade == tagger # NoneObject /\ tagger_ret # NoneList

\* A tagger of one version, without a suffix and without latest-inclusion
SingleVersionNoLatest ==
    /\ tagger # NoneObject
    /\ tagger._suffix = None
    /\ Len(tagger._prefixes) = 1
    /\ ~tagger._latest

\* What is left of the input tag once the version is stripped
StrippedTag == _strip_tag_version(tagger_tag, tagger._prefixes)

\* tag is version-x for a non-empty x
IsVersionDash(tag, version) ==
    /\ tag # None
    /\ StartsWith(tag, version \o <<"-">>)
    /\ Len(tag) > Len(version) + 1

\* C6: with one version v and latest-inclusion off the version tagger
\* returns exactly [v] for the input tag v, for no input tag (None) and for
\* the input tag 'latest'.
C6_VersionAloneForEmptyTags ==
    ( /\ CallMade
      /\ SingleVersionNoLatest
      /\ tagger_tag \in {tagger._prefixes[1], None, latest} )
    => tagger_ret = <<tagger._prefixes[1]>>

C6_Witness ==
    /\ CallMade
    /\ SingleVersionNoLatest
    /\ tagger_tag = latest
    /\ tagger_ret = <<v_1_2>>

\* C7 as stated: with one version v and latest-inclusion off every input
\* tag v-x, x not empty, is returned as it is: [v-x].
C7_VersionedTagUnchanged ==
    ( /\ CallMade
      /\ SingleVersionNoLatest
      /\ IsVersionDash(tagger_tag, tagger._prefixes[1]) )
    => tagger_ret = <<tagger_tag>>

\* C7: with one version v and latest-inclusion off every input tag v-x, x
\* neither empty nor 'latest', is returned as it is: [v-x]; for v-latest
\* the tagger returns [v].
C7_VersionedTagUnchangedUnlessLatest ==
    ( /\ CallMade
      /\ SingleVersionNoLatest
      /\ IsVersionDash(tagger_tag, tagger._prefixes[1]) )
    => tagger_ret =
          IF Drop(tagger_tag, Len(tagger._prefixes[1]) + 1) = latest
          THEN <<tagger._prefixes[1]>>
          ELSE <<tagger_tag>>

C7_Witness ==
    /\ CallMade
    /\ SingleVersionNoLatest
    /\ tagger_tag = v_1_2 \o <<"-">> \o str_x
    /\ tagger_ret = <<tagger_tag>>

C9_LatestIsEmpty ==
    ( /\ CallMade
      /\ \/ tagger_tag \in {None, latest}
         \/ StrippedTag = <<>> )
    => tagger_ret = VersionTagger_generate_tags(tagger, None)

\* --version is given: the tagger is the version tagger
VersionActive == Truthy(args.version)

CollapsingTag ==
    \/ tagger_tag \in {None, latest}
    \/ \E m \in 1..Len(tagger._prefixes) :
          tagger_tag = tagger._prefixes[m] \o str_latest_suffix

MaxCallPrecision == 4

\* Versions: three parts, a pre-release part, a major version 0, one part
SemverPool ==
    { <<"5", ".", "4", ".", "1">>,
      <<"5", ".", "5", ".", "0", "-", "a", "l", "p", "h", "a">>,
      <<"0", ".", "6", ".", "1", "1">>,
      <<"3", ".", "5", ".", "3">>,
      <<"0", ".", "0">>,
      <<"1", ".", "0">>,
      <<"0">>,
      <<"1">> }

\* generate_semver_versions(version, precision, zero); what it raises is
\* kept as <<ValueError, message>>
call_generate_semver_versions ==
    /\ pc = "func"
    /\ \E version \in SemverPool, precision \in 0..MaxCallPrecision,
          zero \in BOOLEAN :
          LET ret == generate_semver_versions(version, precision, zero)
          IN  /\ fn' = "generate_semver_versions"
              /\ fn_args' = [version |-> version, precision |-> precision,
                             zero |-> zero]
              /\ fn_ret' = IF ret = ValueErrorList
                           THEN <<ValueError,
                                  precision_error_message(
                                      precision, version,
                                      Len(sub_versions(version)))>>
                           ELSE ret
    /\ UNCHANGED <<mainVars, taggerVars, locals>>

str_a == <<"a">>

\* An algorithm and 64 hexadecimal digits
sha256_digest ==
    << "s", "h", "a", "2", "5", "6", ":", "0", "1", "2", "3", "4", "5", "6",
       "7", "8", "9", "a", "b", "c", "d", "e", "f", "0", "1", "2", "3", "4",
       "5", "6", "7", "8", "9", "a", "b", "c", "d", "e", "f", "0", "1", "2",
       "3", "4", "5", "6", "7", "8", "9", "a", "b", "c", "d", "e", "f", "0",
       "1", "2", "3", "4", "5", "6", "7", "8", "9", "a", "b", "c", "d", "e",
       "f" >>

\* What DIGEST_PATTERN matches: one of "[:xdigt" and 32 times ']'
bracket_digest ==
    << "s", "h", "a", "2", "5", "6", ":", "[", "]", "]", "]", "]", "]", "]",
       "]", "]", "]", "]", "]", "]", "]", "]", "]", "]", "]", "]", "]", "]",
       "]", "]", "]", "]", "]", "]", "]", "]", "]", "]", "]", "]" >>

\* Names: plain, with a user, with a host and port, with a dotted host,
\* with an upper-case host; and 'A', which is no name
NamePool ==
    { str_a, <<"u", "/", "a">>, <<"r", ":", "5", "/", "a">>,
      <<"h", ".", "i", "o", "/", "a">>,
      <<"H", ".", "i", "o", "/", "a">>, <<"A">> }

\* Tags: none, valid ones, and '-x', which is no tag
CallTagPool == { None, str_x, v_1_2, latest, <<"-", "x">> }

\* References: names, names with tags, with a trailing newline, with a
\* trailing '!', with a digest, and with what DIGEST_PATTERN matches
ReferencePool ==
    { join_image_tag(name, tag) :
        name \in NamePool \ {<<"A">>}, tag \in {None, str_x} }
    \cup { <<"A">>, <<>>, <<"a", ":">>, <<":", "x">>,
           <<"a", "\n">>, <<"a", ":", "x", "\n">>,
           <<"a", ":", "x", "\n", "\n">>, <<"a", ":", "x", "!">>,
           <<"a", ":", "x", "@">> \o sha256_digest,
           <<"a", "@">> \o sha256_digest,
           <<"a", ":", "x", "@">> \o bracket_digest }

\* Registries: with a port, plain, dotted, upper-case
CallRegistryPool ==
    { <<"r", ":", "5">>, <<"r", "2">>, <<"h", ".", "i", "o">>, <<"R">> }

\* split_image_tag(image_tag); what it raises is kept as
\* <<ValueError, message>>
call_split_image_tag ==
    /\ pc = "func"
    /\ \E image_tag \in ReferencePool :
          LET ret == split_image_tag(image_tag)
          IN  /\ fn' = "split_image_tag"
              /\ fn_args' = [image_tag |-> image_tag]
              /\ fn_ret' = IF ret = ValueErrorList
                           THEN <<ValueError, split_error_message(image_tag)>>
                           ELSE ret
    /\ UNCHANGED <<mainVars, taggerVars, locals>>

\* split_image_tag(join_image_tag(image, tag))
call_split_of_join ==
    /\ pc = "func"
    /\ \E image \in NamePool, tag \in CallTagPool :
          LET image_tag == join_image_tag(image, tag)
              ret       == split_image_tag(image_tag)
          IN  /\ fn' = "split_image_tag(join_image_tag)"
              /\ fn_args' = [image |-> image, tag |-> tag]
              /\ fn_ret' = IF ret = ValueErrorList
                           THEN <<ValueError, split_error_message(image_tag)>>
                           ELSE ret
    /\ UNCHANGED <<mainVars, taggerVars, locals>>

\* RegistryTagger(registry).generate_tag(image), for an image of the pool
\* or (again) for the image that the last call returned for this registry
call_generate_tag ==
    /\ pc = "func"
    /\ \E registry \in CallRegistryPool, again \in BOOLEAN :
       \E image \in IF again
                    THEN IF /\ fn = "generate_tag"
                            /\ fn_args.registry = registry
                            /\ ~fn_args.again
                            /\ Len(fn_ret) = 1
                         THEN {fn_ret[1]} ELSE {}
                    ELSE NamePool :
          LET ret == RegistryTagger_generate_tag(registry, image)
          IN  /\ fn' = "generate_tag"
              /\ fn_args' = [registry |-> registry, image |-> image,
                             again |-> again]
              /\ fn_ret' = IF ret = ValueError
                           THEN <<ValueError, strip_error_message(image)>>
                           ELSE <<ret>>
    /\ UNCHANGED <<mainVars, taggerVars, locals>>

\* generate_tags, lines 230-234: split_image_tag(image_tag), and
\* RegistryTagger(registry).generate_tag(image) for the name it returns
call_generate_tag_of_split ==
    /\ pc = "func"
    /\ \E registry \in CallRegistryPool, image_tag \in ReferencePool :
          LET split == split_image_tag(image_tag)
              ret   == RegistryTagger_generate_tag(registry, split[1])
          IN  /\ fn' = "generate_tag(split_image_tag)"
              /\ fn_args' = [registry |-> registry, image_tag |-> image_tag]
              /\ fn_ret' = IF split = ValueErrorList
                           THEN <<ValueError, split_error_message(image_tag)>>
                           ELSE IF ret = ValueError
                           THEN <<ValueError, strip_error_message(split[1])>>
                           ELSE <<ret>>
    /\ UNCHANGED <<mainVars, taggerVars, locals>>

FuncInit ==
    /\ args \in {TaggerArgs(NoVersionArgs, NoGitArgs)}
    /\ pc = "func"
    /\ tags = NoneList
    /\ version_tagger = NoneObject
    /\ git_tagger = NoneObject
    /\ registry_tagger = NoneObject
    /\ tag_map = <<>>
    /\ i = 1
    /\ calls = <<>>
    /\ log = <<>>
    /\ TaggerIdle
    /\ FuncIdle

FuncNext ==
    \/ call_generate_semver_versions
    \/ call_split_image_tag
    \/ call_split_of_join
    \/ call_generate_tag
    \/ call_generate_tag_of_split

FuncSpec == FuncInit /\ [][FuncNext]_vars

(***************************************************************************)
(* Claims about the functions (checked under FuncSpec)                     *)
(***************************************************************************)

\* s holds sub as a run of consecutive characters
Contains(s, sub) ==
    \E k \in 0..(Len(s) - Len(sub)) : SubSeq(s, k + 1, k + Len(sub)) = sub

\* The version and what is left of it before each '.' and '-', longest
\* first
NaturalPrefixes(version) ==
    LET lens == {Len(version)}
                \cup {k - 1 : k \in {m \in 1..Len(version) :
                                        version[m] \in {".", "-"}}}
        n    == Cardinality(lens)
        at   == CHOOSE f \in [1..n -> lens] :
                    \A a \in 1..n : \A b \in (a + 1)..n : f[a] > f[b]
    IN  [k \in 1..n |-> Take(version, at[k])]

SemverCall == fn = "generate_semver_versions"

SemverRaised == SemverCall /\ Len(fn_ret) = 2 /\ fn_ret[1] = ValueError

SemverReturned == SemverCall /\ ~SemverRaised

PrefixesAt(version, precision) ==
    LET all == NaturalPrefixes(version)
    IN  IF precision > 1
        THEN SubSeq(all, 1, Len(all) - (precision - 1))
        ELSE all

\* C12: a last entry that is exactly '0' is dropped unless `zero` is set,
\* and never when it is the only entry; the list returned is not empty.
C12_ZeroDroppedUnlessAsked ==
    SemverReturned
    => LET kept == PrefixesAt(fn_args.version, fn_args.precision)
           drop == /\ ~fn_args.zero
                   /\ Len(kept) > 1
                   /\ kept[Len(kept)] = <<"0">>
       IN  /\ fn_ret # <<>>
           /\ fn_ret = IF drop THEN SubSeq(kept, 1, Len(kept) - 1) ELSE kept

C12_Witness ==
    /\ SemverReturned
    /\ fn_args = [version |-> <<"0", ".", "6", ".", "1", "1">>,
                  precision |-> 1, zero |-> FALSE]
    /\ fn_ret = << <<"0", ".", "6", ".", "1", "1">>,
                   <<"0", ".", "6">> >>

\* C13: generate_semver_versions raises exactly when the precision asked
\* for is greater than the number of prefixes of the version, and the
\* message gives both numbers; at a precision from 1 to that number it
\* returns a list.
C13_PrecisionError ==
    SemverCall
    => LET actual == Len(NaturalPrefixes(fn_args.version))
       IN  /\ SemverRaised <=> fn_args.precision > actual
           /\ SemverRaised
              => /\ Contains(fn_ret[2],
                             <<"(", ToString(fn_args.precision), ")">>)
                 /\ Contains(fn_ret[2], <<"(", ToString(actual), ")">>)

C13_Witness ==
    /\ SemverRaised
    /\ fn_args.version = <<"3", ".", "5", ".", "3">>
    /\ fn_args.precision = 4

HexDigit ==
    Digit \cup {"a", "b", "c", "d", "e", "f", "A", "B", "C", "D", "E", "F"}

\* A digest of the grammar: algorithm ':' 32 or more hexadecimal digits
ValidDigest(s) ==
    LET c == Index(s, ":")
        h == Drop(s, c)
    IN  /\ c # 0
        /\ DigestAlgorithm(SubSeq(s, 1, c - 1))
        /\ Len(h) >= DigestMinRepeat
        /\ Chars(h) \subseteq HexDigit

\* name [':' tag], all of s
NameAndTag(s) ==
    LET c == LastIndex(s, ":")
    IN  \/ NamePattern(s)
        \/ c # 0 /\ NamePattern(SubSeq(s, 1, c - 1)) /\ TagPattern(Drop(s, c))

\* A reference of the grammar, first to last character:
\* name [':' tag] ['@' digest]
ReferenceGrammar(s) ==
    LET at == Index(s, "@")
    IN  IF at = 0 THEN NameAndTag(s)
        ELSE NameAndTag(SubSeq(s, 1, at - 1)) /\ ValidDigest(Drop(s, at))

SplitCall == fn = "split_image_tag"

SplitRaised == SplitCall /\ fn_ret[1] = ValueError

\* C14: for a name of the name grammar and a tag of the tag grammar,
\* split_image_tag(join_image_tag(name, tag)) is (name, tag); for a name
\* without a tag split_image_tag(name) is (name, None), the tag None and
\* not ''.
C14_SplitOfJoin ==
    /\ ( /\ fn = "split_image_tag(join_image_tag)"
         /\ NamePattern(fn_args.image)
         /\ fn_args.tag = None \/ TagPattern(fn_args.tag) )
       => fn_ret = <<fn_args.image, fn_args.tag>>
    /\ (SplitCall /\ NamePattern(fn_args.image_tag))
       => fn_ret = <<fn_args.image_tag, None>>

C14_Witness ==
    /\ fn = "split_image_tag(join_image_tag)"
    /\ fn_args = [image |-> <<"r", ":", "5", "/", "a">>, tag |-> str_x]
    /\ fn_ret = <<fn_args.image, str_x>>

\* C15: split_image_tag returns only for an input that is, first to last
\* character, a reference of the grammar; for any other input it raises
\* the error whose message quotes the input.
C15_WholeInputMatches ==
    SplitCall
    => /\ ~SplitRaised => ReferenceGrammar(fn_args.image_tag)
       /\ SplitRaised
          => Contains(fn_ret[2], <<"'">> \o fn_args.image_tag \o <<"'">>)

\* C16: a reference name[:tag]@digest with a digest of the grammar is
\* accepted, and split_image_tag returns its name and its tag.
C16_DigestAccepted ==
    LET s    == fn_args.image_tag
        at   == Index(s, "@")
        head == SubSeq(s, 1, at - 1)
    IN  ( /\ SplitCall
          /\ at # 0
          /\ NameAndTag(head)
          /\ ValidDigest(Drop(s, at)) )
        => /\ ~SplitRaised
           /\ fn_ret = split_image_tag(head)

RelocateCall == fn = "generate_tag"

\* The first segment of a name, when a '/' ends it
FirstSegment(n) == SubSeq(n, 1, Index(n, "/") - 1)

\* The name specifies a registry host: its first segment is a hostname
\* with a '.' or a ':port'
HasRegistryHost(n) ==
    /\ Index(n, "/") # 0
    /\ Hostname(FirstSegment(n))
    /\ Chars(FirstSegment(n)) \cap {".", ":"} # {}

\* C17 as stated: the host of a name that specifies a registry host is
\* replaced by the registry: the result is registry/remainder.
C17_HostReplaced ==
    ( /\ RelocateCall
      /\ NamePattern(fn_args.image)
      /\ HasRegistryHost(fn_args.image) )
    => fn_ret = <<fn_args.registry \o <<"/">>
                  \o Drop(fn_args.image, Index(fn_args.image, "/"))>>

\* C17: the host of a name whose registry host has a ':port' is replaced
\* by the registry: the result is registry/remainder.
C17_HostWithPortReplaced ==
    ( /\ RelocateCall
      /\ NamePattern(fn_args.image)
      /\ HasRegistryHost(fn_args.image)
      /\ ":" \in Chars(FirstSegment(fn_args.image)) )
    => fn_ret = <<fn_args.registry \o <<"/">>
                  \o Drop(fn_args.image, Index(fn_args.image, "/"))>>

C17_Witness ==
    /\ RelocateCall
    /\ fn_args.image = <<"r", ":", "5", "/", "a">>
    /\ fn_args.registry = <<"h", ".", "i", "o">>
    /\ fn_ret = << <<"h", ".", "i", "o", "/", "a">> >>

\* A name without its leading hostname segment
StripHost(n) ==
    LET k == Index(n, "/")
    IN  IF k # 0 /\ Hostname(FirstSegment(n)) /\ NameComponents(Drop(n, k))
        THEN Drop(n, k)
        ELSE n

\* C18: for a valid name n and a registry r the result is r/n when r/n is
\* of the name grammar and r/(n without its hostname) when not; relocating
\* the result again with r gives the same exactly when r/result is not of
\* the name grammar, and r/result when it is.
C18_RelocationRule ==
    (RelocateCall /\ NamePattern(fn_args.image))
    => LET r      == fn_args.registry
           n      == fn_args.image
           joined == r \o <<"/">> \o n
       IN  /\ fn_ret = << IF NamePattern(joined) THEN joined
                          ELSE r \o <<"/">> \o StripHost(n) >>
           /\ fn_args.again
              => /\ fn_ret[1] = n <=> ~NamePattern(joined)
                 /\ NamePattern(joined) => fn_ret[1] = joined

C18_Witness ==
    /\ RelocateCall
    /\ fn_args.again
    /\ fn_args.registry = <<"r", "2">>
    /\ fn_ret = << <<"r", "2", "/", "r", "2", "/", "u", "/", "a">> >>

(***************************************************************************)
(* Claims about the login (checked under Spec)                             *)
(***************************************************************************)

str_login == <<"l", "o", "g", "i", "n">>

str_password_placeholder == <<"<", "p", "a", "s", "s", "w", "o", "r", "d", ">">>

IsLoginCall(c) == c.argv[2] = str_login

\* raw_args holds --login USER:PASSWORD
LoginSupplied ==
    \E k \in 1..(Len(args.unrecognized) - 1) :
        args.unrecognized[k] = str_login_option

\* The PASSWORD of --login USER:PASSWORD
Password ==
    LET credentials == args.unrecognized[2]
    IN  Drop(credentials, Index(credentials, ":"))

\* The invocation is over and neither an option that goes with --version
\* or --git-hash was wrong nor a command failed
RanToTheEnd ==
    /\ pc \in {"done", "SystemExit_2"}
    /\ ~parser_error(_resolve_deprecated_arguments(args))

\* The calls that are logins, by their place in the calls
LoginCalls == {k \in 1..Len(calls) : IsLoginCall(calls[k])}

\* C19: with --login given, an invocation issues exactly one login call,
\* after every rename and before the first push; without it, no login call.
C19_OneLoginBeforePushes ==
    /\ ~LoginSupplied => LoginCalls = {}
    /\ (LoginSupplied /\ RanToTheEnd)
       => /\ Cardinality(LoginCalls) = 1
          /\ \A k \in LoginCalls : \A m \in 1..Len(calls) :
                /\ IsTagCall(calls[m]) => m < k
                /\ IsPushCall(calls[m]) => k < m

\* C20: in a dry run with --login given the login command is logged with
\* '<password>' in place of the password, and no line of the log holds
\* the password.
C20_PasswordReplaced ==
    (LoginSupplied /\ RanToTheEnd /\ args.dry_run)
    => /\ \E k \in 1..Len(log) :
             /\ Contains(log[k], str_login)
             /\ Contains(log[k], str_password_placeholder)
       /\ \A k \in 1..Len(log) : ~Contains(log[k], Password)

(***************************************************************************)
(* Claims about the dry run and the order of main (checked under Spec)     *)
(***************************************************************************)

\* A line of the log that is a command: the executable, then its arguments
IsCommandLine(line) == StartsWith(line, str_docker \o <<" ">>)

\* The commands of the log, in the order they were written
CommandLines == SelectSeq(log, IsCommandLine)

\* The commands the tag map asks for: a rename for every pair that
\* differs, then a push for every computed reference
ExpectedCalls ==
    [k \in 1..Len(RenamesNeeded) |->
        <<str_docker, str_tag, RenamesNeeded[k][1], RenamesNeeded[k][2]>>]
    \o [k \in 1..Len(Computed) |-> <<str_docker, str_push, Computed[k]>>]

\* C21: in a dry run no process is started; every rename and push writes
\* one line, the executable and the arguments with single spaces between
\* them, whether --verbose is given or not (without it nothing else is
\* written), and the commands are those of a real run in the same order.
C21_DryRunLogsCommands ==
    /\ args.dry_run
       => /\ \A k \in 1..Len(calls) : ~calls[k].started
          /\ CommandLines =
                [k \in 1..Len(calls) |-> Join(calls[k].argv, <<" ">>)]
          /\ ~args.verbose => log = CommandLines
    /\ ~args.dry_run => \A k \in 1..Len(calls) : calls[k].started
    /\ pc = "done" => [k \in 1..Len(calls) |-> calls[k].argv] = ExpectedCalls

C21_Witness ==
    /\ pc = "done"
    /\ args.dry_run
    /\ args.verbose
    /\ Len(CommandLines) >= 3
    /\ Len(log) > Len(CommandLines)
    /\ CommandLines[1] = <<"d", "o", "c", "k", "e", "r", " ", "t", "a", "g",
                           " ", "a", " ", "a", ":", "x">>

\* --version-latest or --version-semver, or the option each replaced, is
\* given and no version is
FlagWithoutVersion ==
    LET a == _resolve_deprecated_arguments(args)
    IN  (a.version_latest \/ a.version_semver) /\ ~Truthy(a.version)

\* C22: --version-latest or --version-semver (or --tag-latest, --tag-semver)
\* without a version ends the invocation with exit status 2: no tagger is
\* built, no tag is computed, and no rename or push is invoked or logged.
C22_FlagWithoutVersionRejected ==
    FlagWithoutVersion
    => /\ pc \in {"start", "SystemExit_2"}
       /\ tags = NoneList
       /\ version_tagger = NoneObject
       /\ git_tagger = NoneObject
       /\ registry_tagger = NoneObject
       /\ tag_map = <<>>
       /\ calls = <<>>
       /\ log = <<>>

C22_Witness ==
    /\ pc = "SystemExit_2"
    /\ FlagWithoutVersion
    /\ args.tag_semver
    /\ ~parse_args_error(args)
    /\ args.git_hash
    /\ Len(args.image) = 2

\* C23: generate_tags called twice in one invocation with the same image
\* reference and the same tags and taggers returns the same list: two
\* entries of the tag map for the same image hold the same references in
\* the same order.
C23_SameInputsSameTags ==
    TagMapBuilt
    => \A k \in 1..Len(tag_map) : \A n \in 1..Len(tag_map) :
          tag_map[k].image = tag_map[n].image
          => tag_map[k].push_tags = tag_map[n].push_tags

(***************************************************************************)
(* Claims about tags given back to the tagger (checked under TaggerSpec)   *)
(***************************************************************************)

\* The version tagger without latest-inclusion is given one of the tags
\* that its last call returned
GivenBack ==
    /\ CallMade
    /\ VersionActive
    /\ ~tagger._latest
    /\ tagger' = tagger
    /\ \E k \in 1..Len(tagger_ret) : tagger_tag' = tagger_ret[k]

\* C28 as stated: for a single version or the versions of a semver
\* expansion, without latest-inclusion, every tag the version tagger
\* returns for a tag t gives, when given to the same tagger, the list that
\* t gave.
C28_RetaggingStable == [][GivenBack => tagger_ret' = tagger_ret]_vars

\* C28: the same for a single version and for the semver expansion of a
\* version that holds no '-'.
C28_RetaggingStableWithoutDash ==
    [][ ( /\ GivenBack
          /\ Len(tagger._prefixes) = 1 \/ "-" \notin Chars(args.version) )
        => tagger_ret' = tagger_ret ]_vars

C28_Witness ==
    /\ CallMade
    /\ VersionActive
    /\ ~tagger._latest
    /\ tagger._prefixes = <<v_1_2, <<"1">> >>
    /\ tagger_tag = <<"1", "-">> \o str_x \o str_latest_suffix
    /\ tagger_ret = << v_1_2 \o <<"-">> \o str_x \o str_latest_suffix,
                       <<"1", "-">> \o str_x \o str_latest_suffix >>

(***************************************************************************)
(* More claims about main (checked under Spec)                             *)
(***************************************************************************)

\* An image reference of the invocation that split_image_tag refuses
MalformedImage ==
    \E k \in 1..Len(args.image) :
        split_image_tag(args.image[k]) = ValueErrorList

\* The precision asked for is more than the version has
ExpansionFails ==
    main_versions(_resolve_deprecated_arguments(args)) = ValueErrorList

\* C26: the tag map is complete before the first rename or push; when an
\* image reference, at any place of the list, is malformed, or relocation
\* or the semver expansion fails, the invocation ends with that error and
\* no rename and no push has been issued or logged for any image.
C26_TagMapBeforeCalls ==
    /\ calls # <<>> => Len(tag_map) = Len(args.image)
    /\ (MalformedImage \/ ExpansionFails)
       => /\ pc \notin {"tag", "push", "done"}
          /\ calls = <<>>
          /\ log = <<>>
    /\ pc = "ValueError" => calls = <<>> /\ log = <<>>

C26_Witness ==
    /\ pc = "ValueError"
    /\ MalformedImage
    /\ Len(args.image) = 2
    /\ Len(tag_map) = 1
    /\ Len(tag_map[1].push_tags) = 2
    /\ tag_map[1].image # tag_map[1].push_tags[1]
    /\ calls = <<>>

(***************************************************************************)
(* generate_semver_versions, one iteration of its loop at a time           *)
(***************************************************************************)

\* How many versions the loop is followed for
MaxIterations == 6

\* Versions: those of SemverPool, and versions with a trailing '.', a '+',
\* two '.' in a row and a trailing newline
LoopVersionPool ==
    SemverPool
    \cup { <<"1", ".">>, <<"1", "+", "b">>, <<"1", ".", ".", "2">>,
           <<"1", ".", "2", "\n">> }

\* generate_semver_versions, lines 192-203: what follows the loop, for the
\* list sub_versions the loop has built
semver_after_loop(sub, precision, zero) ==
    LET cut == IF precision > 1
               THEN SubSeq(sub, 1, Len(sub) - (precision - 1))
               ELSE sub
    IN  IF precision > Len(sub) THEN ValueErrorList
        ELSE IF ~zero /\ Len(cut) > 1 /\ cut[Len(cut)] = <<"0">>
        THEN SubSeq(cut, 1, Len(cut) - 1)
        ELSE cut

\* generate_semver_versions, lines 188-190: the condition of the while
\* loop holds and its body runs once
semver_loop_iteration ==
    /\ pc = "while"
    /\ locals.remaining_version # <<>>
    /\ Len(locals.sub_versions) < MaxIterations
    /\ locals' =
          [sub_versions      |-> Append(locals.sub_versions,
                                        locals.remaining_version),
           remaining_version |-> strip_last_part(locals.remaining_version)]
    /\ UNCHANGED <<mainVars, taggerVars, fn, fn_args, fn_ret>>

\* generate_semver_versions, lines 188 and 192-203: the condition of the
\* loop fails, and the function returns or raises
semver_loop_exit ==
    /\ pc = "while"
    /\ locals.remaining_version = <<>>
    /\ LET ret == semver_after_loop(locals.sub_versions, fn_args.precision,
                                    fn_args.zero)
       IN  /\ fn_ret' = ret
           /\ pc' = IF ret = ValueErrorList THEN "ValueError" ELSE "return"
    /\ UNCHANGED <<args, tags, version_tagger, git_tagger, registry_tagger,
                   tag_map, i, calls, log, taggerVars, fn, fn_args, locals>>

\* generate_semver_versions(version, precision, zero) is called: lines
\* 186-187
LoopInit ==
    /\ args \in {TaggerArgs(NoVersionArgs, NoGitArgs)}
    /\ pc = "while"
    /\ tags = NoneList
    /\ version_tagger = NoneObject
    /\ git_tagger = NoneObject
    /\ registry_tagger = NoneObject
    /\ tag_map = <<>>
    /\ i = 1
    /\ calls = <<>>
    /\ log = <<>>
    /\ TaggerIdle
    /\ fn = "generate_semver_versions"
    /\ fn_args \in [version : LoopVersionPool,
                     precision : 0..MaxCallPrecision, zero : BOOLEAN]
    /\ fn_ret = NoneList
    /\ locals = [sub_versions |-> <<>>, remaining_version |-> fn_args.version]

LoopNext ==
    \/ semver_loop_iteration
    \/ semver_loop_exit

\* The interpreter keeps running the call until it is over
LoopSpec == LoopInit /\ [][LoopNext]_vars /\ WF_vars(LoopNext)

(***************************************************************************)
(* Claims about the loop (checked under LoopSpec)                          *)
(***************************************************************************)

\* The call is over: it has returned or raised
CallOver == pc \in {"return", "ValueError"}

\* C24: generate_semver_versions terminates for every version that is not
\* empty: every iteration of the loop leaves a remaining version that is
\* shorter than before, and the call returns or raises in the end.
C24_LoopTerminates ==
    /\ [][ (pc = "while" /\ locals' # locals)
           => Len(locals'.remaining_version) < Len(locals.remaining_version)
        ]_vars
    /\ <>CallOver

(***************************************************************************)
(* More claims about the functions (checked under FuncSpec)                *)
(***************************************************************************)

\* The number of parts of a version: one more than its '.' and '-'
PartCount(version) ==
    1 + Cardinality({k \in 1..Len(version) : version[k] \in {".", "-"}})

\* C25: at precision p every version generate_semver_versions returns has
\* at least p parts and none is one of the p-1 prefixes with the fewest
\* parts; the first is the version itself and each later one is a proper
\* prefix of the one before it.
C25_AtLeastPrecisionParts ==
    SemverReturned
    => LET p   == fn_args.precision
           all == NaturalPrefixes(fn_args.version)
       IN  /\ Len(fn_ret) >= 1
           /\ fn_ret[1] = fn_args.version
           /\ \A k \in 1..Len(fn_ret) : PartCount(fn_ret[k]) >= p
           /\ \A k \in 1..Len(fn_ret) :
                 \A n \in (Len(all) - (p - 1) + 1)..Len(all) :
                    p > 1 => fn_ret[k] # all[n]
           /\ \A k \in 2..Len(fn_ret) :
                 /\ Len(fn_ret[k]) < Len(fn_ret[k - 1])
                 /\ StartsWith(fn_ret[k - 1], fn_ret[k])

C25_Witness ==
    /\ SemverReturned
    /\ fn_args.precision = 2
    /\ fn_args.version = << "5", ".", "5", ".", "0", "-", "a", "l", "p", "h",
                          "a" >>
    /\ Len(fn_ret) = 3
    /\ fn_ret[3] = <<"5", ".", "5">>

\* split_image_tag accepted the reference of the call
SplitAccepted == split_image_tag(fn_args.image_tag) # ValueErrorList

\* C27: the name split_image_tag returns for a reference it accepts is
\* accepted by _strip_image_registry, so the registry tagger does not raise
\* for it: it returns registry/name, or registry/name-without-hostname.
C27_RelocationNeverRaises ==
    (fn = "generate_tag(split_image_tag)" /\ SplitAccepted)
    => LET name == split_image_tag(fn_args.image_tag)[1]
           r    == fn_args.registry
       IN  /\ _strip_image_registry(name) # ValueError
           /\ Len(fn_ret) = 1
           /\ \/ fn_ret[1] = r \o <<"/">> \o name
              \/ fn_ret[1] = r \o <<"/">> \o StripHost(name)

C27_Witness ==
    /\ fn = "generate_tag(split_image_tag)"
    /\ fn_args.image_tag = <<"r", ":", "5", "/", "a", ":", "x">>
    /\ fn_args.registry = <<"r", "2">>
    /\ fn_ret = << <<"r", "2", "/", "a">> >>

====
